---- MODULE Spec2Model ----
(***************************************************************************)
(* The shuttletracker updater: Updater.Run / Updater.update poll the iTrak *)
(* data feed, fan out one goroutine per vehicle record, store new Updates  *)
(* through the Database interface and prune old ones.                      *)
(*                                                                         *)
(* The clock is an integer that advances between the GETs of the feed: all *)
(* the clock readings of one cycle (current_timestamp of its INSERTs, the  *)
(* time.Now() of its pruning) are equal, and later than those of the       *)
(* cycles before.  Rows created in one cycle tie on created, and ORDER BY  *)
(* created DESC LIMIT 1 can then return any of them.  Month and FifteenMin *)
(* give the two durations the code uses in clock units.  The updates table *)
(* is a bag (multiset) of rows holding the columns the updater reads back: *)
(* vehicle_id, timestamp, created.                                         *)
(***************************************************************************)
EXTENDS Integers, Sequences, FiniteSets, TLC

\* ------------------------------------------------------------------ bounds
MaxCycles == 2        \* invocations of update()
MaxRecords == 2       \* vehicle records in one feed body
MaxHistory == 11      \* rows of a vehicle no older than fifteen minutes
MaxTokens == 4        \* pieces (records, delimiters) of a body split on its own

\* ------------------------------------------------------- program constants
Month == 3            \* time.Now().AddDate(0, -1, 0), in clock units
FifteenMin == 2       \* time.Minute * -15, in clock units
MinRecent == 5        \* len(updates) < 5
\* Latitudes, longitudes and distances are integers, in units of 0.001 degree.
Near == 3             \* nearestDistance > .003
Far == 50000          \* nearestDistance += 50
OffRoute == 5000      \* minDistance > 5

VARIABLES
    now,        \* wall clock (time.Now(), current_timestamp)
    cycles,     \* invocations of update() so far
    pc,         \* where Run/update is
    tasks,      \* the goroutines of the running cycle, with their locals
    wg,         \* sync.WaitGroup counter
    updates,    \* the updates table, a bag of rows
    outcome,    \* how the last invocation of update() ended
    deleted,    \* the count DeleteUpdatesBefore returned
    cutoff,     \* the argument update() gave DeleteUpdatesBefore
    prev,       \* the records the previous cycle accepted, one per vehicle
    ticks,      \* ticks Run has received from the ticker
    ended,      \* how the previous invocation of update() ended
    routes,     \* the routes table
    body,       \* the body of the feed's answer, as update() read it
    warned      \* update() has logged the warning "Found no vehicles"

vars == <<now, cycles, pc, tasks, wg, updates, outcome, deleted, cutoff, prev, ticks, ended, routes, body, warned>>

\* ------------------------------------------------------------- the vehicles
\* The vehicles table: internal id and iTrak id.
Vehicles == { [ID |-> 11, ITrakID |-> 1], [ID |-> 12, ITrakID |-> 2] }

VehicleIDs == { v.ID : v \in Vehicles }

\* database.ErrVehicleNotFound, database.ErrUpdateNotFound, any other error, nil
ErrVehicleNotFound == "ErrVehicleNotFound"
ErrUpdateNotFound == "ErrUpdateNotFound"
ErrOther == "error"
Nil == "nil"

\* ------------------------------------------------------------ feed records
\* A segment of the body between two "eof" delimiters, as dataRegexp sees
\* it: whether the expression matches, and the captured id, lat, lon, spd,
\* time and date values (digit strings are tuples of digits).  A lat or lon
\* value, a string of [\d\.-]+, is an optional minus sign and the runs of
\* digits the periods separate: "42.700" is two runs, "1.2.3" three, "-" a
\* sign and no run.
Zero == [neg |-> FALSE, parts |-> <<0>>]

\* strconv.ParseFloat(value, 64) of such a string: a number when it has one
\* run of digits, or two around one period (here a fraction of three
\* digits, the number counted in 0.001 degree); otherwise 0 and a syntax
\* error.
ParseFloat(text) ==
    IF Len(text.parts) \in {1, 2}
    THEN [err |-> Nil,
          v |-> (IF text.neg THEN -1 ELSE 1)
                   * (text.parts[1] * 1000
                        + (IF Len(text.parts) = 2 THEN text.parts[2] ELSE 0))]
    ELSE [err |-> ErrOther, v |-> 0]

Date1112 == <<1, 1, 1, 2, 2, 0, 1, 7>>

RecA == [match |-> TRUE, id |-> 1, lat |-> Zero, lon |-> Zero, spd |-> TRUE,
         time |-> <<9, 1, 9, 0, 2>>, date |-> Date1112]

RecB == [match |-> TRUE, id |-> 1, lat |-> Zero, lon |-> Zero, spd |-> TRUE,
         time |-> <<9, 1, 9, 0, 3>>, date |-> Date1112]

RecC == [match |-> TRUE, id |-> 2, lat |-> Zero, lon |-> Zero, spd |-> TRUE,
         time |-> <<9, 1, 9, 0, 2>>, date |-> Date1112]

RecU == [match |-> TRUE, id |-> 3, lat |-> Zero, lon |-> Zero, spd |-> TRUE,
         time |-> <<9, 1, 9, 0, 2>>, date |-> Date1112]

RecBad == [match |-> FALSE, id |-> 0, lat |-> Zero, lon |-> Zero, spd |-> FALSE,
           time |-> <<>>, date |-> <<>>]

Segments == {RecA, RecB, RecC, RecU, RecBad}

\* The place of a segment in the order the bodies list their records in.
Rank(seg) ==
    CASE seg = RecA -> 1 [] seg = RecB -> 2 [] seg = RecC -> 3 [] seg = RecU -> 4
      [] OTHER -> 5

\* A body is a sequence of pieces: the text of a record (one of Segments)
\* or the delimiter.
Eof == [delim |-> "eof"]

SeqsUpTo(S, n) == UNION { [1..k -> S] : k \in 0..n }

\* Every record followed by the delimiter.
RECURSIVE Delimited(_)
Delimited(recs) ==
    IF recs = <<>> THEN <<>> ELSE <<Head(recs), Eof>> \o Delimited(Tail(recs))

\* The bodies the feed answers with while the updater runs: at most
\* MaxRecords records, each followed by the delimiter.  The goroutines of
\* the records are alike whatever the order of the records, so one order of
\* each choice of records is enough.
FeedBodies ==
    { Delimited(recs) :
        recs \in { b \in SeqsUpTo(Segments, MaxRecords) :
                     \A k \in 1..(Len(b) - 1) : Rank(b[k]) <= Rank(b[k + 1]) } }

\* strings.Split(string(body), delim): the pieces before the first
\* delimiter, then the split of what follows it; a body without delimiter
\* is one segment.
RECURSIVE Split(_)
Split(s) ==
    IF \A k \in DOMAIN s : s[k] # Eof THEN <<s>>
    ELSE LET k == CHOOSE x \in DOMAIN s :
                     s[x] = Eof /\ \A y \in 1..(x - 1) : s[y] # Eof
         IN  <<SubSeq(s, 1, k - 1)>> \o Split(SubSeq(s, k + 1, Len(s)))

\* vehiclesData kept whole.
KeepAll(s) == s

\* vehiclesData = vehiclesData[:len(vehiclesData)-1]
DropLast(s) == SubSeq(s, 1, Len(s) - 1)

\* What FindAllStringSubmatch(vehicleData, -1)[0] holds for a segment: the
\* first record in it that matches, and no match otherwise.
FirstMatch(segment) ==
    IF \E k \in DOMAIN segment : segment[k].match
    THEN segment[CHOOSE k \in DOMAIN segment :
                    segment[k].match /\ \A y \in 1..(k - 1) : ~segment[y].match]
    ELSE RecBad

\* ------------------------------------------------------- generateTimestamp
RECURSIVE AtoiVal(_)
AtoiVal(ds) == IF Len(ds) = 0 THEN 0
               ELSE 10 * AtoiVal(SubSeq(ds, 1, Len(ds) - 1)) + ds[Len(ds)]

\* strconv.Atoi on a string of digits: the empty string is an error.
Atoi(ds) == [err |-> (Len(ds) = 0), v |-> AtoiVal(ds)]

IsLeap(y) == (y % 4 = 0) /\ ((y % 100 # 0) \/ (y % 400 = 0))

DaysBefore == <<0, 31, 59, 90, 120, 151, 181, 212, 243, 273, 304, 334>>

\* Days from 0001-01-01 to the first day of month m of year y.
DaysToMonth(y, m) ==
    LET p == y - 1
    IN  365 * p + (p \div 4) - (p \div 100) + (p \div 400)
        + DaysBefore[m] + (IF m > 2 /\ IsLeap(y) THEN 1 ELSE 0)

\* time.Date(year, month, day, hour, min, sec, 0, time.UTC): values out of
\* range are normalised.  The instant is <<day number, second of the day>>.
Date(year, month, day, hour, min, sec) ==
    LET s == hour * 3600 + min * 60 + sec
    IN  <<DaysToMonth(year, month) + (day - 1) + (s \div 86400), s % 86400>>

NoTime == <<0, 0>>

\* a.Before(b)
Before(a, b) == a[1] < b[1] \/ (a[1] = b[1] /\ a[2] < b[2])

\* generateTimestamp that takes the hour from the first two characters of
\* the time, the minute from the next two and the second from the rest.
generateTimestampTwoDigitHour(itrakTime, itrakDate) ==
    IF Len(itrakDate) < 8 THEN [panic |-> TRUE, err |-> FALSE, t |-> NoTime]
    ELSE IF Len(itrakTime) < 4 THEN [panic |-> TRUE, err |-> FALSE, t |-> NoTime]
    ELSE
      LET day == Atoi(SubSeq(itrakDate, 3, 4))
          year == Atoi(SubSeq(itrakDate, 5, 8))
          monthNum == Atoi(SubSeq(itrakDate, 1, 2))
          month == ((monthNum.v - 1) % 12) + 1
          hour == Atoi(SubSeq(itrakTime, 1, 2))
          minute == Atoi(SubSeq(itrakTime, 3, 4))
          second == Atoi(SubSeq(itrakTime, 5, Len(itrakTime)))
      IN  IF day.err \/ year.err \/ monthNum.err \/ hour.err \/ minute.err \/ second.err
          THEN [panic |-> FALSE, err |-> TRUE, t |-> NoTime]
          ELSE [panic |-> FALSE, err |-> FALSE,
                t |-> Date(year.v, month, day.v, hour.v, minute.v, second.v)]

\* The result is a panic (a slice bound out of range), an error, or a time.
generateTimestamp(itrakTime, itrakDate) ==
    IF Len(itrakDate) < 8 THEN [panic |-> TRUE, err |-> FALSE, t |-> NoTime]
    ELSE IF Len(itrakTime) < 4 THEN [panic |-> TRUE, err |-> FALSE, t |-> NoTime]
    ELSE
      LET day == Atoi(SubSeq(itrakDate, 3, 4))
          year == Atoi(SubSeq(itrakDate, 5, 8))
          monthNum == Atoi(SubSeq(itrakDate, 1, 2))
          month == ((monthNum.v - 1) % 12) + 1
          n == Len(itrakTime)
          hour == Atoi(SubSeq(itrakTime, 1, n - 4))
          minute == Atoi(SubSeq(itrakTime, n - 3, n - 2))
          second == Atoi(SubSeq(itrakTime, n - 1, n))
      IN  IF day.err \/ year.err \/ monthNum.err \/ hour.err \/ minute.err \/ second.err
          THEN [panic |-> FALSE, err |-> TRUE, t |-> NoTime]
          ELSE [panic |-> FALSE, err |-> FALSE,
                t |-> Date(year.v, month, day.v, hour.v, minute.v, second.v)]

\* ------------------------------------------------------------ the database
\* The rows of a vehicle.
RowsOf(vid) == { r \in DOMAIN updates : r.vehicle_id = vid }

\* GetVehicleByITrakID that answers a missing row with the zero Vehicle and
\* no error.
GetVehicleZeroWhenMissing(itrakID) ==
    LET found == { v \in Vehicles : v.ITrakID = itrakID }
    IN  (IF found = {} THEN { [err |-> Nil, ID |-> 0] }
         ELSE { [err |-> Nil, ID |-> v.ID] : v \in found })
        \cup { [err |-> ErrOther, ID |-> 0] }

\* GetVehicleByITrakID: the vehicle, ErrVehicleNotFound, or another error.
GetVehicleByITrakID(itrakID) ==
    LET found == { v \in Vehicles : v.ITrakID = itrakID }
    IN  (IF found = {} THEN { [err |-> ErrVehicleNotFound, ID |-> 0] }
         ELSE { [err |-> Nil, ID |-> v.ID] : v \in found })
        \cup { [err |-> ErrOther, ID |-> 0] }

\* GetLastUpdateForVehicle: SELECT * ... ORDER BY created DESC LIMIT 1,
\* ErrUpdateNotFound when the vehicle has no row, or another error.  The
\* updates table has no column for the route: the Route of the Update that
\* is returned is the zero value.
GetLastUpdateForVehicle(vid) ==
    LET rows == RowsOf(vid)
        last == { r \in rows : \A q \in rows : q.created <= r.created }
    IN  (IF rows = {} THEN { [err |-> ErrUpdateNotFound, Timestamp |-> NoTime, Route |-> ""] }
         ELSE { [err |-> Nil, Timestamp |-> r.timestamp, Route |-> ""] : r \in last })
        \cup { [err |-> ErrOther, Timestamp |-> NoTime, Route |-> ""] }

\* The number of rows of the table among the rows S (with their copies).
RECURSIVE Copies(_, _)
Copies(table, S) ==
    IF S = {} THEN 0
    ELSE LET r == CHOOSE x \in S : TRUE IN table[r] + Copies(table, S \ {r})

RowCount(table) == Copies(table, DOMAIN table)

NoRows == [r \in {} |-> 0]

\* GetUpdatesForVehicleSince with created >= $2.
GetUpdatesForVehicleFrom(vid, since) ==
    { [err |-> Nil,
       rows |-> [r \in { q \in RowsOf(vid) : q.created >= since } |-> updates[r]]],
      [err |-> ErrOther, rows |-> NoRows] }

\* GetUpdatesForVehicleSince: WHERE vehicle_id = $1 and created > $2; the
\* rows returned (a bag), with the error.
GetUpdatesForVehicleSince(vid, since) ==
    { [err |-> Nil,
       rows |-> [r \in { q \in RowsOf(vid) : q.created > since } |-> updates[r]]],
      [err |-> ErrOther, rows |-> NoRows] }

\* CreateUpdate of an Update with these fields: INSERT INTO updates
\* (latitude, longitude, vehicle_id, heading, speed, timestamp); created is
\* the database's current_timestamp.  The Route of the Update is not among
\* the columns.
CreateUpdate(vid, latitude, longitude, timestamp, route) ==
    LET row == [vehicle_id |-> vid, latitude |-> latitude, longitude |-> longitude,
                timestamp |-> timestamp, created |-> now]
    IN  [r \in DOMAIN updates \cup {row} |->
            IF r = row THEN (IF r \in DOMAIN updates THEN updates[r] + 1 ELSE 1)
            ELSE updates[r]]

\* DeleteUpdatesBefore with created <= $1.
DeleteUpdatesUpTo(before) ==
    LET keep == { r \in DOMAIN updates : ~(r.created <= before) }
    IN  [r \in keep |-> updates[r]]

\* DeleteUpdatesBefore: DELETE FROM updates WHERE created < $1.
DeleteUpdatesBefore(before) ==
    LET keep == { r \in DOMAIN updates : ~(r.created < before) }
    IN  [r \in keep |-> updates[r]]

\* The table when the updater starts: empty, or holding what an earlier run
\* of the updater left there.
InitialTables ==
    { NoRows,
      [r \in { [vehicle_id |-> 11, latitude |-> ParseFloat(RecB.lat).v,
                longitude |-> ParseFloat(RecB.lon).v,
                timestamp |-> generateTimestamp(RecB.time, RecB.date).t,
                created |-> 0] } |-> 1] }

\* ---------------------------------------------------------------- the routes
\* A route: its id, whether it is enabled, and the coordinates of its path.
East(enabled) == [ID |-> "east", Enabled |-> enabled, Coords |-> {<<0, 0>>, <<-6, 0>>}]

West(enabled) == [ID |-> "west", Enabled |-> enabled, Coords |-> {<<2, 0>>, <<52, 0>>}]

\* A route without coordinates.
Depot == [ID |-> "depot", Enabled |-> TRUE, Coords |-> {}]

\* The routes tables an updater can run against.
RouteTables ==
    {{}} \cup { {East(a)} : a \in BOOLEAN }
         \cup { {East(a), West(b)} : a \in BOOLEAN, b \in BOOLEAN }
         \cup { {Depot}, {East(TRUE), Depot} }

RoutesAtStart == {East(TRUE), West(TRUE)}

\* --------------------------------------------------------------- Updater.Run
Init ==
    /\ now = 0
    /\ cycles = 0
    /\ pc = "start"
    /\ tasks = <<>>
    /\ wg = 0
    /\ updates \in InitialTables
    /\ outcome = "none"
    /\ deleted = 0
    /\ cutoff = 0
    /\ prev = {}
    /\ ticks = 0
    /\ ended = "none"
    /\ routes = RoutesAtStart
    /\ body = <<>>
    /\ warned = FALSE

\* update() is entered: its locals are fresh.
EnterUpdate ==
    /\ cycles < MaxCycles
    /\ cycles' = cycles + 1
    /\ pc' = "get"
    /\ tasks' = <<>>
    /\ wg' = 0
    /\ outcome' = "running"
    /\ deleted' = 0
    /\ cutoff' = 0
    /\ body' = <<>>
    /\ warned' = FALSE
    /\ UNCHANGED <<now, updates, prev, ended, routes>>

\* Run without the initial update: the first update waits for a tick.
RunInitialOnTick ==
    /\ pc = "start"
    /\ EnterUpdate
    /\ ticks' = ticks + 1

\* Do one initial update.
RunInitial ==
    /\ pc = "start"
    /\ EnterUpdate
    /\ ticks' = ticks

\* for range ticker { u.update() }: the next tick is received.
RunTick ==
    /\ pc = "idle"
    /\ EnterUpdate
    /\ ticks' = ticks + 1

\* ------------------------------------------------------------ Updater.update
\* The time from one GET of the feed to the next, in clock units: short, or
\* a month.
Gaps == {1, Month}

\* client.Get returns; the round trip takes time.
GetOK ==
    /\ pc = "get"
    /\ \E gap \in Gaps : now' = now + gap
    /\ pc' = "read"
    /\ UNCHANGED <<cycles, tasks, wg, updates, outcome, deleted, cutoff, prev, ticks, ended, routes, body, warned>>

\* client.Get fails and the return is missing.
GetFailGoesOn ==
    /\ pc = "get"
    /\ \E gap \in Gaps : now' = now + gap
    /\ pc' = "read"
    /\ outcome' = "getfail"
    /\ UNCHANGED <<cycles, tasks, wg, updates, deleted, cutoff, prev, ticks, ended, routes, body, warned>>

\* client.Get fails: log and return.
GetFail ==
    /\ pc = "get"
    /\ \E gap \in Gaps : now' = now + gap
    /\ pc' = "ret"
    /\ outcome' = "getfail"
    /\ UNCHANGED <<cycles, tasks, wg, updates, deleted, cutoff, prev, ticks, ended, routes, body, warned>>

\* ioutil.ReadAll fails: log and return.
ReadFail ==
    /\ pc = "read"
    /\ pc' = "ret"
    /\ outcome' = "readfail"
    /\ UNCHANGED <<now, cycles, tasks, wg, updates, deleted, cutoff, prev, ticks, ended, routes, body, warned>>

\* The goroutine of one record, about to run.  routesErr is the error of
\* GetRoutes that GuessRouteForVehicle logged for it.
NewTask(seg) ==
    [seg |-> seg, pc |-> "match", vehicle |-> 0, got |-> FALSE, last |-> NoTime,
     ts |-> NoTime, route |-> "", routesErr |-> Nil, out |-> "running"]

\* ioutil.ReadAll returns the body.
ReadOK ==
    /\ pc = "read"
    /\ body' \in FeedBodies
    /\ warned' = warned
    /\ pc' = "split"
    /\ UNCHANGED <<now, cycles, tasks, wg, updates, outcome, deleted, cutoff, prev, ticks,
                   ended, routes>>

\* len(vehiclesData) <= 1
NoVehicles(vehiclesData) == Len(vehiclesData) <= 1

\* The body is split on "eof", its last segment dropped, the warning logged
\* for at most one segment left, and one goroutine is started per segment
\* left, each after wg.Add(1).
FanOut ==
    /\ pc = "split"
    /\ LET vehiclesData == DropLast(Split(body))
       IN  /\ warned' = NoVehicles(vehiclesData)
           /\ tasks' = [i \in 1..Len(vehiclesData) |-> NewTask(FirstMatch(vehiclesData[i]))]
           /\ wg' = Len(vehiclesData)
    /\ pc' = "wait"
    /\ UNCHANGED <<now, cycles, updates, outcome, deleted, cutoff, prev, ticks, ended, routes,
                   body>>

\* wg.Wait() that does not wait.
WaitNotHeld == TRUE

\* wg.Wait() returns when the counter is zero.
WaitReleased == wg = 0

Wait ==
    /\ pc = "wait"
    /\ WaitReleased
    /\ pc' = "prune"
    /\ UNCHANGED <<now, cycles, tasks, wg, updates, outcome, deleted, cutoff, prev, ticks, ended, routes, body, warned>>

\* time.Now().AddDate(0, -1, -1)
PruneCutoffEarlier == now - Month - 1

\* time.Now().AddDate(0, -1, 0)
PruneCutoff == now - Month

\* u.db.DeleteUpdatesBefore(...) succeeds, returning the count.
PruneOK ==
    /\ pc = "prune"
    /\ cutoff' = PruneCutoff
    /\ updates' = DeleteUpdatesBefore(PruneCutoff)
    /\ deleted' = RowCount(updates) - RowCount(updates')
    /\ outcome' = "pruned"
    /\ pc' = "ret"
    /\ UNCHANGED <<now, cycles, tasks, wg, prev, ticks, ended, routes, body, warned>>

\* u.db.DeleteUpdatesBefore(...) fails and the error is fatal (log.Fatal).
PruneFailFatal ==
    /\ pc = "prune"
    /\ cutoff' = PruneCutoff
    /\ outcome' = "prunefail"
    /\ pc' = "crashed"
    /\ UNCHANGED <<now, cycles, tasks, wg, updates, deleted, prev, ticks, ended, routes, body, warned>>

\* u.db.DeleteUpdatesBefore(...) fails: log and return.
PruneFail ==
    /\ pc = "prune"
    /\ cutoff' = PruneCutoff
    /\ outcome' = "prunefail"
    /\ pc' = "ret"
    /\ UNCHANGED <<now, cycles, tasks, wg, updates, deleted, prev, ticks, ended, routes, body, warned>>

\* The records of the cycle that were stored, and were the only record of
\* their vehicle in the cycle.
AcceptedAlone ==
    { tasks[i].seg : i \in { k \in DOMAIN tasks :
          /\ tasks[k].out = "stored"
          /\ \A j \in DOMAIN tasks : j # k => tasks[j].seg.id # tasks[k].seg.id } }

\* update() returns to Run, and its locals are gone.
Return ==
    /\ pc = "ret"
    /\ pc' = "idle"
    /\ prev' = AcceptedAlone
    /\ tasks' = <<>>
    /\ outcome' = "none"
    /\ deleted' = 0
    /\ cutoff' = 0
    /\ ended' = outcome
    /\ body' = <<>>
    /\ warned' = FALSE
    /\ UNCHANGED <<now, cycles, wg, updates, ticks, routes>>

\* ------------------------------------------- the goroutine of one record
\* A float64 of the guess: a finite number or +Inf.
Num(v) == [inf |-> FALSE, v |-> v]

Inf == [inf |-> TRUE, v |-> 0]

Add(a, b) == IF a.inf \/ b.inf THEN Inf ELSE Num(a.v + b.v)

Times(n, a) == IF a.inf THEN Inf ELSE Num(n * a.v)

\* a < b
Less(a, b) == ~a.inf /\ (b.inf \/ a.v < b.v)

\* math.Sqrt, of a perfect square (the coordinates used lie on one meridian).
Sqrt(x) == CHOOSE r \in 0..x : r * r = x

\* math.Sqrt(math.Pow(updateLatitude-coord.Lat, 2) + math.Pow(updateLongitude-coord.Lng, 2))
Distance(latitude, longitude, coord) ==
    Sqrt((latitude - coord[1]) * (latitude - coord[1])
         + (longitude - coord[2]) * (longitude - coord[2]))

\* The distance to the farthest coordinate of a route.
FarthestDistance(latitude, longitude, route) ==
    LET ds == { Distance(latitude, longitude, c) : c \in route.Coords }
    IN  IF ds = {} THEN Inf ELSE Num(CHOOSE d \in ds : \A e \in ds : e <= d)

\* The loop over route.Coords with nearestDistance starting from 0 when
\* there is no coordinate.
NearestDistanceZeroWhenEmpty(latitude, longitude, route) ==
    LET ds == { Distance(latitude, longitude, c) : c \in route.Coords }
    IN  IF ds = {} THEN Num(0) ELSE Num(CHOOSE d \in ds : \A e \in ds : d <= e)

\* The loop over route.Coords: the distance to the nearest coordinate, +Inf
\* for a route without coordinates.
NearestDistance(latitude, longitude, route) ==
    LET ds == { Distance(latitude, longitude, c) : c \in route.Coords }
    IN  IF ds = {} THEN Inf ELSE Num(CHOOSE d \in ds : \A e \in ds : d <= e)

\* if nearestDistance > .003 { nearestDistance += 5 }
PenalisedLightly(nearestDistance) ==
    IF Less(Num(Near), nearestDistance) THEN Add(nearestDistance, Num(OffRoute))
    ELSE nearestDistance

\* if nearestDistance > .003 { nearestDistance += 50 }
Penalised(nearestDistance) ==
    IF Less(Num(Near), nearestDistance) THEN Add(nearestDistance, Num(Far))
    ELSE nearestDistance

\* What one update adds to routeDistances[route.ID], the flag Enabled not
\* looked at.
AddedWhateverEnabled(update, route) ==
    Penalised(NearestDistance(update.latitude, update.longitude, route))

\* What one update adds to routeDistances[route.ID].
Added(update, route) ==
    Add(IF ~route.Enabled THEN Inf ELSE Num(0),
        Penalised(NearestDistance(update.latitude, update.longitude, route)))

\* routeDistances[route.ID] after the loop over the updates S of a bag.
RECURSIVE Accumulated(_, _, _)
Accumulated(rows, S, route) ==
    IF S = {} THEN Num(0)
    ELSE LET r == CHOOSE x \in S : TRUE
         IN  Add(Times(rows[r], Added(r, route)), Accumulated(rows, S \ {r}, route))

\* The map routeDistances after the two loops.
RouteDistances(rs, rows) ==
    [id \in { r.ID : r \in rs } |->
        Accumulated(rows, DOMAIN rows, CHOOSE r \in rs : r.ID = id)]

\* distance / len(updates) > 5, for the sum distance of n updates
OverThreshold(distance, n) == distance.inf \/ distance.v > OffRoute * n

\* The selection loop with the threshold applied to every route looked at,
\* not to a new minimum only.
RECURSIVE SelectResettingAlways(_, _, _, _, _)
SelectResettingAlways(routeDistances, n, order, minDistance, minRouteID) ==
    IF order = <<>> THEN minRouteID
    ELSE LET id == Head(order)
             distance == routeDistances[id]
         IN  IF OverThreshold(distance, n)
             THEN SelectResettingAlways(routeDistances, n, Tail(order), minDistance, "")
             ELSE IF Less(distance, minDistance)
             THEN SelectResettingAlways(routeDistances, n, Tail(order), distance, id)
             ELSE SelectResettingAlways(routeDistances, n, Tail(order), minDistance,
                                        minRouteID)

\* The selection loop, over the ids of the map in the order given.  The
\* averages of the routes are sums over the same number n of updates: they
\* compare as the sums do.
RECURSIVE Select(_, _, _, _, _)
Select(routeDistances, n, order, minDistance, minRouteID) ==
    IF order = <<>> THEN minRouteID
    ELSE LET id == Head(order)
             distance == routeDistances[id]
         IN  IF Less(distance, minDistance)
             THEN Select(routeDistances, n, Tail(order), distance,
                         IF OverThreshold(distance, n) THEN "" ELSE id)
             ELSE Select(routeDistances, n, Tail(order), minDistance, minRouteID)

\* The orders in which range can go through a map with the keys S.
Orders(S) ==
    { o \in [1..Cardinality(S) -> S] : \A a, b \in DOMAIN o : o[a] = o[b] => a = b }

\* GetRoutes: the routes, or an error with no routes.
GetRoutes == { [err |-> Nil, routes |-> routes], [err |-> ErrOther, routes |-> {}] }

\* GetRoute: the route of the id, or an error with the zero Route.
GetRoute(routeID) == { [err |-> Nil, ID |-> routeID], [err |-> ErrOther, ID |-> ""] }

\* len(updates) < 5 left out.
TooFewNever(n) == FALSE

\* len(updates) < 5
TooFew(n) == n < MinRecent

\* GuessRouteForVehicle from the routes and the updates it was given: the
\* route id and the error it returns, and the error of the query for the
\* updates.  With too few updates the bare return gives the zero Route and
\* the error of the query.
Guess(rs, since) ==
    LET n == RowCount(since.rows)
        routeDistances == RouteDistances(rs, since.rows)
        minRouteIDs == { Select(routeDistances, n, o, Inf, "") :
                            o \in Orders(DOMAIN routeDistances) }
    IN  IF TooFew(n) THEN { [route |-> "", err |-> since.err, since |-> since.err] }
        ELSE UNION {
               IF minRouteID = "" THEN { [route |-> "", err |-> Nil, since |-> since.err] }
               ELSE { [route |-> r.ID, err |-> r.err, since |-> since.err] :
                         r \in GetRoute(minRouteID) }
               : minRouteID \in minRouteIDs }

\* GuessRouteForVehicle: an error of GetRoutes is logged (routes) and the
\* guess goes on with the routes it got.
GuessRouteForVehicle(vid) ==
    UNION { UNION { { [route |-> g.route, err |-> g.err, since |-> g.since,
                       routes |-> got.err] : g \in Guess(got.routes, since) } :
                      since \in GetUpdatesForVehicleSince(vid, now - FifteenMin) }
            : got \in GetRoutes }

\* The comparison left out: nothing is a duplicate.
IsDuplicateNever(gotLastUpdate, lastTimestamp, timestamp) == FALSE

\* Any last update makes the sample a duplicate.
IsDuplicateWhenAnyLast(gotLastUpdate, lastTimestamp, timestamp) == gotLastUpdate

\* lastUpdate.Timestamp == timestamp, when a last update was found
IsDuplicate(gotLastUpdate, lastTimestamp, timestamp) ==
    gotLastUpdate /\ lastTimestamp = timestamp

\* defer wg.Done(): the goroutine returns without having stored anything.
Finish(i, out) ==
    /\ tasks' = [tasks EXCEPT ![i] = [NewTask(tasks[i].seg) EXCEPT !.pc = "done", !.out = out]]
    /\ wg' = wg - 1

\* The goroutine returns after the comparison of the timestamps was made:
\* what it compared is kept.
Complete(i, out) ==
    /\ tasks' = [tasks EXCEPT ![i].pc = "done", ![i].out = out, ![i].vehicle = 0]
    /\ wg' = wg - 1

\* An unrecovered panic in a goroutine ends the process.
Panic ==
    /\ pc' = "crashed"
    /\ UNCHANGED <<now, cycles, tasks, wg, updates, outcome, deleted, cutoff, prev, ticks, ended, routes, body, warned>>

\* FindAllStringSubmatch(...)[0], strconv.Atoi of the id, GetVehicleByITrakID
\* and strconv.ParseFloat of the speed.
TaskLookup(i) ==
    /\ pc = "wait"
    /\ tasks[i].pc = "match"
    /\ IF ~tasks[i].seg.match
       THEN Panic
       ELSE /\ \E v \in GetVehicleByITrakID(tasks[i].seg.id) :
                 IF v.err = ErrVehicleNotFound THEN Finish(i, "unknown")
                 ELSE IF v.err # Nil THEN Finish(i, "dberr")
                 ELSE IF ~tasks[i].seg.spd THEN Finish(i, "parse")
                 ELSE /\ tasks' = [tasks EXCEPT ![i].pc = "getlast", ![i].vehicle = v.ID]
                      /\ wg' = wg
            /\ UNCHANGED <<now, cycles, pc, updates, outcome, deleted, cutoff, prev, ticks, ended, routes, body, warned>>

\* GetLastUpdateForVehicle, generateTimestamp and the comparison of the two
\* timestamps.
TaskGetLast(i) ==
    /\ pc = "wait"
    /\ tasks[i].pc = "getlast"
    /\ \E l \in GetLastUpdateForVehicle(tasks[i].vehicle) :
          IF l.err # Nil /\ l.err # ErrUpdateNotFound
          THEN /\ Finish(i, "dberr")
               /\ UNCHANGED <<now, cycles, pc, updates, outcome, deleted, cutoff, prev, ticks, ended, routes, body, warned>>
          ELSE LET gotLastUpdate == (l.err = Nil)
                   g == generateTimestamp(tasks[i].seg.time, tasks[i].seg.date)
               IN  IF g.panic THEN Panic
                   ELSE /\ IF g.err THEN Finish(i, "tserr")
                           ELSE IF IsDuplicate(gotLastUpdate, l.Timestamp, g.t)
                           THEN /\ tasks' = [tasks EXCEPT ![i].pc = "done", ![i].out = "dup",
                                                ![i].vehicle = 0,
                                                ![i].got = gotLastUpdate,
                                                ![i].last = l.Timestamp, ![i].ts = g.t]
                                /\ wg' = wg - 1
                           ELSE /\ tasks' = [tasks EXCEPT ![i].pc = "guess",
                                                ![i].got = gotLastUpdate,
                                                ![i].last = l.Timestamp, ![i].ts = g.t]
                                /\ wg' = wg
                        /\ UNCHANGED <<now, cycles, pc, updates, outcome, deleted, cutoff, prev, ticks, ended, routes, body, warned>>

\* route, err = u.GuessRouteForVehicle(&vehicle)
TaskGuess(i) ==
    /\ pc = "wait"
    /\ tasks[i].pc = "guess"
    /\ \E g \in GuessRouteForVehicle(tasks[i].vehicle) :
          IF g.err # Nil
          THEN Finish(i, IF g.since # Nil THEN "sinceerr" ELSE "guesserr")
          ELSE /\ tasks' = [tasks EXCEPT ![i].pc = "create", ![i].route = g.route,
                                          ![i].routesErr = g.routes]
               /\ wg' = wg
    /\ UNCHANGED <<now, cycles, pc, updates, outcome, deleted, cutoff, prev, ticks, ended, routes, body, warned>>

\* CreateUpdate that reports an error for a row it has written.
TaskCreateWritesThenFails(i) ==
    /\ pc = "wait"
    /\ tasks[i].pc = "create"
    /\ updates' = CreateUpdate(tasks[i].vehicle, ParseFloat(tasks[i].seg.lat).v,
                               ParseFloat(tasks[i].seg.lon).v, tasks[i].ts,
                               tasks[i].route)
    /\ \/ Complete(i, "stored")
       \/ Finish(i, "createerr")
    /\ UNCHANGED <<now, cycles, pc, outcome, deleted, cutoff, prev, ticks, ended, routes, body, warned>>

\* The latitude and the longitude are parsed, an error of either only
\* logged; the Update is built and u.db.CreateUpdate(&update) is called; its
\* error is logged.
TaskCreate(i) ==
    /\ pc = "wait"
    /\ tasks[i].pc = "create"
    /\ \/ /\ updates' = CreateUpdate(tasks[i].vehicle, ParseFloat(tasks[i].seg.lat).v,
                                     ParseFloat(tasks[i].seg.lon).v, tasks[i].ts,
                               tasks[i].route)
          /\ Complete(i, "stored")
       \/ /\ updates' = updates
          /\ Finish(i, "createerr")
    /\ UNCHANGED <<now, cycles, pc, outcome, deleted, cutoff, prev, ticks, ended, routes, body, warned>>

Next ==
    \/ RunInitial
    \/ RunTick
    \/ GetOK
    \/ GetFail
    \/ ReadOK
    \/ FanOut
    \/ ReadFail
    \/ Wait
    \/ PruneOK
    \/ PruneFail
    \/ Return
    \/ \E i \in DOMAIN tasks : TaskLookup(i)
    \/ \E i \in DOMAIN tasks : TaskGetLast(i)
    \/ \E i \in DOMAIN tasks : TaskGuess(i)
    \/ \E i \in DOMAIN tasks : TaskCreate(i)

Spec == Init /\ [][Next]_vars

\* update() returns once it has reached a return statement, and the ticker
\* of time.Tick keeps delivering ticks to the loop of Run.
LiveSpec == Spec /\ WF_vars(Return) /\ WF_vars(RunTick)

\* A step of one of the goroutines of the cycle.
TaskStep ==
    \E i \in DOMAIN tasks :
       TaskLookup(i) \/ TaskGetLast(i) \/ TaskGuess(i) \/ TaskCreate(i)

\* Every storage call returns, with a value or an error, and the scheduler
\* runs every goroutine that can run: the goroutines of a cycle go on, and
\* so does update() at wg.Wait(), at DeleteUpdatesBefore and at its return.
DrainSpec ==
    Spec /\ WF_vars(TaskStep) /\ WF_vars(Wait) /\ WF_vars(PruneOK \/ PruneFail)
         /\ WF_vars(Return)

\* ---------------------------------------------- one guess, positions given
\* The places a vehicle reported from: by the east route and as far from
\* the west route as the closeness threshold, half way between the two
\* routes, and by the west route far from the east route.
Positions == <<(<<-1, 0>>), (<<1, 0>>), (<<50, 0>>)>>

\* The k-th update of a history: one sample a second, from a place,
\* created at a clock reading.
HistoryRow(k, place, created) ==
    [vehicle_id |-> 11, latitude |-> place[1], longitude |-> place[2],
     timestamp |-> <<generateTimestamp(RecA.time, RecA.date).t[1], k>>,
     created |-> created]

\* The updates of vehicle 11 after the updater has polled for a while: a
\* samples from the first place, then b from the second and c from the third,
\* all created a clock unit ago, and old samples created FifteenMin ago.
History(a, b, c, old) ==
    LET recent == { HistoryRow(k, Positions[IF k <= a THEN 1 ELSE IF k <= a + b THEN 2 ELSE 3],
                               FifteenMin - 1) : k \in 1..(a + b + c) }
        before == { HistoryRow(a + b + c + k, Positions[1], 0) : k \in 1..old }
    IN  [r \in recent \cup before |-> 1]

Histories ==
    { History(t[1], t[2], t[3], t[4]) :
        t \in { u \in (0..MaxHistory) \X (0..MaxHistory) \X (0..MaxHistory) \X (0..1) :
                   u[1] + u[2] + u[3] <= MaxHistory } }

\* The goroutine of a new sample of vehicle 11 has found it is no duplicate
\* and is about to guess the route, in a cycle whose other goroutines are
\* through (here: a body of one record).
GuessInit ==
    /\ now = FifteenMin
    /\ cycles = 1
    /\ pc = "wait"
    /\ updates \in Histories
    /\ tasks = << [NewTask(RecA) EXCEPT !.pc = "guess", !.vehicle = 11,
                       !.got = (updates # NoRows),
                       !.last = IF updates = NoRows THEN NoTime
                                ELSE (CHOOSE r \in DOMAIN updates :
                                         \A q \in DOMAIN updates : q.created <= r.created).timestamp,
                       !.ts = generateTimestamp(RecA.time, RecA.date).t] >>
    /\ wg = 1
    /\ outcome = "running"
    /\ deleted = 0
    /\ cutoff = 0
    /\ prev = {}
    /\ ticks = 0
    /\ ended = "none"
    /\ routes \in RouteTables
    /\ body = <<RecA, Eof>>
    /\ warned = TRUE

GuessNext ==
    \/ \E i \in DOMAIN tasks : TaskGuess(i)
    \/ \E i \in DOMAIN tasks : TaskCreate(i)

GuessSpec == GuessInit /\ [][GuessNext]_vars

\* ------------------------------------------ one insert, coordinates given
\* The lat and lon values of a record: 0.050, -0.001, 42.700, and the
\* strings "1.2.3", "-" and "-0.0.0": the expression matches them all.
CoordTexts ==
    { [neg |-> FALSE, parts |-> <<0, 50>>], [neg |-> TRUE, parts |-> <<0, 1>>],
      [neg |-> FALSE, parts |-> <<42, 700>>], [neg |-> FALSE, parts |-> <<1, 2, 3>>],
      [neg |-> TRUE, parts |-> <<>>], [neg |-> TRUE, parts |-> <<0, 0, 0>>] }

RecAt(lat, lon) == [RecA EXCEPT !.lat = lat, !.lon = lon]

\* The goroutine of the only record of a body has its vehicle, its
\* timestamp and its route, and is about to parse the coordinates and insert
\* the Update.
CoordInit ==
    /\ now = 1
    /\ cycles = 1
    /\ pc = "wait"
    /\ updates \in InitialTables
    /\ \E lat \in CoordTexts, lon \in CoordTexts :
          tasks = << [NewTask(RecAt(lat, lon)) EXCEPT
                         !.pc = "create", !.vehicle = 11,
                         !.got = (updates # NoRows),
                         !.last = IF updates = NoRows THEN NoTime
                                  ELSE generateTimestamp(RecB.time, RecB.date).t,
                         !.ts = generateTimestamp(RecA.time, RecA.date).t] >>
    /\ wg = 1
    /\ outcome = "running"
    /\ deleted = 0
    /\ cutoff = 0
    /\ prev = {}
    /\ ticks = 0
    /\ ended = "none"
    /\ routes = RoutesAtStart
    /\ body = <<tasks[1].seg, Eof>>
    /\ warned = TRUE

CoordNext ==
    \/ \E i \in DOMAIN tasks : TaskCreate(i)
    \/ Wait
    \/ PruneOK
    \/ PruneFail

CoordSpec == CoordInit /\ [][CoordNext]_vars

\* ------------------------------------------ one timestamp, tokens given
\* The digits of the time token before its last four, the two before its
\* last two, and its last two; time tokens of one and of three digits.
HourDigits == { <<>>, <<9>>, <<0, 9>>, <<2, 3>>, <<2, 4>> }

MinuteDigits == { <<1, 9>>, <<5, 9>>, <<6, 0>> }

SecondDigits == { <<0, 2>>, <<5, 9>>, <<6, 0>> }

TimeTokens ==
    { h \o m \o x : h \in HourDigits, m \in MinuteDigits, x \in SecondDigits }
       \cup { <<9, 0, 2>>, <<2>> }

\* Date tokens MMDDYYYY, and the date of 12 January 2017 written with one
\* digit for the month.
MonthDigits == { <<0, 1>>, <<0, 2>>, <<1, 1>>, <<1, 2>> }

DayDigits == { <<0, 1>>, <<1, 2>>, <<2, 8>>, <<2, 9>>, <<3, 1>> }

YearDigits == { <<2, 0, 1, 7>>, <<2, 0, 2, 0>> }

DateTokens ==
    { m \o d \o y : m \in MonthDigits, d \in DayDigits, y \in YearDigits }
       \cup { <<1, 1, 2, 2, 0, 1, 7>> }

\* A record of vehicle 1 that matches dataRegexp, with the two tokens.
RecWith(time, date) ==
    [match |-> TRUE, id |-> 1, lat |-> Zero, lon |-> Zero, spd |-> TRUE,
     time |-> time, date |-> date]

\* The goroutine of the only record of a body has found its vehicle and is
\* about to fetch the last update and generate the timestamp.
TsInit ==
    /\ now = 1
    /\ cycles = 1
    /\ pc = "wait"
    /\ \E time \in TimeTokens, date \in DateTokens :
          tasks = << [NewTask(RecWith(time, date)) EXCEPT !.pc = "getlast", !.vehicle = 11] >>
    /\ wg = 1
    /\ updates = NoRows
    /\ outcome = "running"
    /\ deleted = 0
    /\ cutoff = 0
    /\ prev = {}
    /\ ticks = 0
    /\ ended = "none"
    /\ routes = RoutesAtStart
    /\ body = <<tasks[1].seg, Eof>>
    /\ warned = TRUE

TsNext == \E i \in DOMAIN tasks : TaskGetLast(i)

TsSpec == TsInit /\ [][TsNext]_vars

\* ------------------------------------------------- one split, body given
\* update() has read a body of at most MaxTokens pieces, in any order, and
\* is about to split it; the table is empty.
SplitInit ==
    /\ now = 1
    /\ cycles = 1
    /\ pc = "split"
    /\ tasks = <<>>
    /\ wg = 0
    /\ updates = NoRows
    /\ outcome = "running"
    /\ deleted = 0
    /\ cutoff = 0
    /\ prev = {}
    /\ ticks = 0
    /\ ended = "none"
    /\ routes = RoutesAtStart
    /\ body \in SeqsUpTo(Segments \cup {Eof}, MaxTokens)
    /\ warned = FALSE

SplitNext ==
    \/ FanOut
    \/ Wait
    \/ PruneOK
    \/ PruneFail

SplitSpec == SplitInit /\ [][SplitNext]_vars

\* ====================================================================
\* Properties
\* ====================================================================
\* The event timestamp of a record, its vehicle, and what kind of record it is.
Ts(seg) == generateTimestamp(seg.time, seg.date).t

Known(seg) == \E v \in Vehicles : v.ITrakID = seg.id

VehicleOf(seg) == (CHOOSE v \in Vehicles : v.ITrakID = seg.id).ID

WellFormed(seg) ==
    /\ seg.match
    /\ seg.spd
    /\ ~generateTimestamp(seg.time, seg.date).panic
    /\ ~generateTimestamp(seg.time, seg.date).err

Done(i) == tasks[i].pc = "done"

\* The task ended on the error of a storage call.
StorageFailed(i) == tasks[i].out \in {"dberr", "sinceerr", "guesserr", "createerr"}

\* The only record of its vehicle in the running cycle.
Alone(i) == \A j \in DOMAIN tasks : j # i => tasks[j].seg.id # tasks[i].seg.id

\* The rows of a vehicle with an event timestamp, created at or after t.
RowsSince(vid, ts, t) ==
    { r \in DOMAIN updates : r.vehicle_id = vid /\ r.timestamp = ts /\ r.created >= t }

\* The latest rows of a vehicle.
Latest(vid) == { r \in RowsOf(vid) : \A q \in RowsOf(vid) : q.created <= r.created }

\* The tasks of the running cycle that stored an Update of a vehicle with an
\* event timestamp.
StoredBy(vid, ts) ==
    { i \in DOMAIN tasks : /\ tasks[i].out = "stored"
                           /\ Known(tasks[i].seg)
                           /\ VehicleOf(tasks[i].seg) = vid
                           /\ tasks[i].ts = ts }

\* C1: a record that the previous cycle accepted (the only record of its
\* vehicle there) and that is delivered again, alone for its vehicle, in
\* this cycle is discarded as a duplicate when no storage call of its task
\* fails: the task creates no Update, and until the cycle prunes the
\* vehicle's latest Update is the single one of the first delivery.
C1_SecondDeliveryDiscarded ==
    \A i \in DOMAIN tasks :
        (Done(i) /\ ~StorageFailed(i) /\ tasks[i].seg \in prev /\ Alone(i))
        => /\ tasks[i].out = "dup"
           /\ pc \in {"wait", "prune"} =>
                 /\ RowsSince(VehicleOf(tasks[i].seg), Ts(tasks[i].seg), now) = {}
                 /\ \A r \in Latest(VehicleOf(tasks[i].seg)) :
                        r.timestamp = Ts(tasks[i].seg) /\ updates[r] = 1
                 /\ Latest(VehicleOf(tasks[i].seg)) # {}

C1_Witness ==
    \E i \in DOMAIN tasks :
        /\ Done(i) /\ ~StorageFailed(i) /\ tasks[i].seg \in prev /\ Alone(i)
        /\ tasks[i].out = "dup"
        /\ pc = "prune"

\* C2: a sample whose timestamp is equal to or earlier than the timestamp
\* of the vehicle's latest stored update is rejected: a task stores an
\* Update only when the vehicle had no update or the sample is strictly
\* later than the latest one.
C2_StoredOnlyIfLater ==
    \A i \in DOMAIN tasks :
        tasks[i].out = "stored" => (~tasks[i].got \/ Before(tasks[i].last, tasks[i].ts))

\* C3: the table never holds two Updates of the same vehicle with the same
\* event timestamp.
C3_NoTwoUpdatesWithOneTimestamp ==
    \A r \in DOMAIN updates :
        /\ updates[r] = 1
        /\ \A q \in DOMAIN updates :
              (q.vehicle_id = r.vehicle_id /\ q.timestamp = r.timestamp) => q = r

\* The running cycle has exactly one record that does not match the field
\* grammar, and its other records are well-formed samples of known vehicles.
OneMalformed ==
    /\ Cardinality({ i \in DOMAIN tasks : ~tasks[i].seg.match }) = 1
    /\ \A i \in DOMAIN tasks :
          tasks[i].seg.match => WellFormed(tasks[i].seg) /\ Known(tasks[i].seg)

\* C4: with one malformed record among the records of a cycle the process
\* does not crash, and once the tasks are through the malformed record's
\* task is abandoned while every other record was looked at.
C4_FanOutIsolation ==
    OneMalformed =>
        /\ pc # "crashed"
        /\ pc \in {"prune", "ret"} =>
              \A i \in DOMAIN tasks :
                 /\ Done(i)
                 /\ ~tasks[i].seg.match => tasks[i].out # "stored"

\* C5: a well-formed record of a known vehicle whose task met no failing
\* storage call is stored when the vehicle had no update or the sample is
\* strictly later than the latest one; and while the tasks run the Updates
\* the cycle created are exactly one per task that stored.
C5_NewSampleAccepted ==
    /\ \A i \in DOMAIN tasks :
          ( /\ Done(i) /\ ~StorageFailed(i)
            /\ WellFormed(tasks[i].seg) /\ Known(tasks[i].seg)
            /\ (~tasks[i].got \/ Before(tasks[i].last, tasks[i].ts)) )
          => tasks[i].out = "stored"
    /\ pc \in {"wait", "prune"} =>
          \A seg \in Segments : \A vid \in VehicleIDs :
             WellFormed(seg) =>
                Copies(updates, RowsSince(vid, Ts(seg), now))
                   = Cardinality(StoredBy(vid, Ts(seg)))

C5_Witness ==
    \E i \in DOMAIN tasks :
        /\ Done(i) /\ tasks[i].out = "stored"
        /\ tasks[i].got /\ Before(tasks[i].last, tasks[i].ts)
        /\ \E j \in DOMAIN tasks :
              Done(j) /\ tasks[j].out = "stored" /\ ~tasks[j].got

\* C6: every stored Update references an existing Vehicle, and the task of
\* a record whose feed id is not registered stores nothing.
C6_UpdatesReferenceVehicles ==
    /\ \A r \in DOMAIN updates : r.vehicle_id \in VehicleIDs
    /\ \A i \in DOMAIN tasks :
          (tasks[i].seg.match /\ ~Known(tasks[i].seg))
          => tasks[i].pc \in {"match", "done"} /\ tasks[i].out \in {"running", "unknown", "dberr"}

C6_Witness ==
    /\ pc = "prune"
    /\ \E i \in DOMAIN tasks : tasks[i].out = "unknown"
    /\ \E j \in DOMAIN tasks : tasks[j].out = "stored"

\* C7: pruning starts, update() returns and the next cycle begins only
\* after every task of the cycle has finished.
C7_NoTaskOutlivesItsCycle ==
    pc \in {"prune", "ret", "idle", "get", "read"} => \A i \in DOMAIN tasks : Done(i)

C7_Witness ==
    /\ pc = "prune"
    /\ Len(tasks) >= 2
    /\ \E i \in DOMAIN tasks : tasks[i].out = "stored"

\* C8: when the GET or the read of the body fails the cycle returns at
\* once: no task was started and no Update was created in it.
C8_FetchFailureAborts ==
    outcome \in {"getfail", "readfail"} =>
        /\ pc = "ret"
        /\ tasks = <<>>
        /\ wg = 0
        /\ \A r \in DOMAIN updates : r.created < now

C8_Witness ==
    /\ outcome = "readfail"
    /\ updates # NoRows

\* C9 as stated: at the end of every invocation of update() no Update
\* older than a month is left.
C9_PrunedAfterEveryCycle ==
    pc = "ret" => \A r \in DOMAIN updates : ~(r.created < now - Month)

\* C9 amended: at the end of every invocation of update() that got and read
\* the feed and whose DeleteUpdatesBefore call succeeded, no Update older
\* than a month is left.
C9_PrunedAfterCompletedCycle ==
    (pc = "ret" /\ outcome = "pruned") =>
        \A r \in DOMAIN updates : ~(r.created < now - Month)

C9_Witness ==
    /\ pc = "ret"
    /\ outcome = "pruned"
    /\ deleted > 0

\* C10: pruning deletes exactly the Updates created strictly before
\* cutoff = now minus a month, keeps every other one, and returns the
\* number it deleted.
C10_PruningBoundary ==
    [][(pc = "prune" /\ outcome' = "pruned") =>
          /\ cutoff' = now - Month
          /\ DOMAIN updates' = { r \in DOMAIN updates : r.created >= cutoff' }
          /\ \A r \in DOMAIN updates' : updates'[r] = updates[r]
          /\ deleted' = Copies(updates, { r \in DOMAIN updates : r.created < cutoff' })
      ]_vars

C10_Witness ==
    /\ pc = "ret"
    /\ outcome = "pruned"
    /\ deleted = 1
    /\ \E r \in DOMAIN updates : r.created = cutoff

\* The ways a cycle ends short of a successful pruning.
Failures == {"getfail", "readfail", "prunefail"}

\* C11: after an invocation of update() that ended in a failure of the GET,
\* of the read of the body or of the pruning, update() returns to Run and a
\* new cycle is started (as long as the bound on the cycles allows one).
C11_LoopSurvivesFailure ==
    (outcome \in Failures /\ cycles < MaxCycles) ~> (pc = "get" /\ ended \in Failures)

C11_Witness ==
    /\ pc = "get"
    /\ ended = "prunefail"
    /\ ticks = 1

\* C12: the first cycle is started at startup with no tick received, every
\* later cycle is started by one received tick, every received tick starts
\* one cycle, and a cycle is started only when update() is not running.
C12_OneCyclePerTick ==
    [][ /\ cycles' # cycles =>
             /\ cycles' = cycles + 1
             /\ pc \in {"start", "idle"}
             /\ pc' = "get"
             /\ pc = "start" => (cycles = 0 /\ ticks = 0 /\ ticks' = 0)
             /\ pc = "idle" => ticks' = ticks + 1
        /\ ticks' # ticks => (ticks' = ticks + 1 /\ cycles' = cycles + 1)
        /\ cycles' = (IF pc' = "start" THEN 0 ELSE ticks' + 1)
      ]_vars

C12_Witness ==
    /\ pc = "get"
    /\ cycles = 2
    /\ ticks = 1

\* The task has called GuessRouteForVehicle.
Guessed(i) ==
    tasks[i].pc = "create" \/ tasks[i].out \in {"stored", "createerr", "guesserr", "sinceerr"}

\* The updates of a vehicle created in the last fifteen minutes.
Recent(vid) == { r \in RowsOf(vid) : r.created > now - FifteenMin }

\* Their number when the task guessed, in a cycle of one record: the
\* Update the task has stored since is not counted.
RecentBefore(i) ==
    Copies(updates, Recent(VehicleOf(tasks[i].seg)))
       - (IF tasks[i].out = "stored" THEN 1 ELSE 0)

\* C13 as stated: with fewer than 5 updates of the vehicle in the last 15
\* minutes the guess is the empty route, without error, whatever the
\* positions and the routes are, and the sample is persisted.
C13_TooFewStillPersisted ==
    \A i \in DOMAIN tasks :
        (Guessed(i) /\ RecentBefore(i) < MinRecent)
        => /\ tasks[i].route = ""
           /\ tasks[i].out \in {"running", "stored"}

\* C13 amended: the same when the query for the recent updates and
\* CreateUpdate return no error: the guess is the empty route without
\* error (GetRoute is not called), and the sample is stored.
C13_TooFewStillPersistedUnlessStorageFails ==
    \A i \in DOMAIN tasks :
        (Guessed(i) /\ RecentBefore(i) < MinRecent
                    /\ tasks[i].out \notin {"sinceerr", "createerr"})
        => /\ tasks[i].route = ""
           /\ tasks[i].out \in {"running", "stored"}
           /\ tasks[i].out = "stored" =>
                 RowsSince(VehicleOf(tasks[i].seg), tasks[i].ts, now) # {}

C13_Witness ==
    \E i \in DOMAIN tasks :
        /\ tasks[i].out = "stored"
        /\ RecentBefore(i) = MinRecent - 1
        /\ RowCount(updates) = MinRecent + 1
        /\ East(TRUE) \in routes
        /\ \A r \in Recent(VehicleOf(tasks[i].seg)) :
              r.created < now => r.latitude = Positions[1][1]

\* The rows of the vehicle the guess of the task was made from.
Evidence(i) == { r \in Recent(VehicleOf(tasks[i].seg)) : r.created < now }

\* The distance a route has gathered over rows.
Gathered(route, S) == Accumulated([r \in S |-> updates[r]], S, [route EXCEPT !.Enabled = TRUE])

\* C14: the route GuessRouteForVehicle returns is an enabled route of the
\* routes table, or the empty route.
C14_DisabledNeverGuessed ==
    \A i \in DOMAIN tasks :
        (tasks[i].pc = "create" /\ tasks[i].route # "")
        => \E r \in routes : r.ID = tasks[i].route /\ r.Enabled

\* A route was guessed from five updates or more while a disabled route was
\* strictly nearer to them.
C14_Witness ==
    \E i \in DOMAIN tasks :
        /\ tasks[i].pc = "create"
        /\ tasks[i].route # ""
        /\ Cardinality(Evidence(i)) >= MinRecent
        /\ \E d \in routes, r \in routes :
              /\ ~d.Enabled
              /\ r.ID = tasks[i].route
              /\ Less(Gathered(d, Evidence(i)), Gathered(r, Evidence(i)))

\* The ids of a map routeDistances that hold its minimum.
Minima(routeDistances) ==
    { id \in DOMAIN routeDistances :
         \A other \in DOMAIN routeDistances :
            ~Less(routeDistances[other], routeDistances[id]) }

\* The two-pass rule: find the minimum average over all the routes, then
\* apply the threshold to it once.  Its results: the routes at the minimum,
\* or the empty route.
TwoPass(routeDistances, n) ==
    IF \E id \in Minima(routeDistances) : ~OverThreshold(routeDistances[id], n)
    THEN Minima(routeDistances)
    ELSE {""}

\* What the selection loop gives for the orders of the map.
Selected(routeDistances, n) ==
    { Select(routeDistances, n, o, Inf, "") : o \in Orders(DOMAIN routeDistances) }

\* The recent updates of the vehicle of a task, as a bag.
EvidenceRows(i) == [r \in Recent(VehicleOf(tasks[i].seg)) |-> updates[r]]

\* C15: for the updates and the routes a task is about to guess from (and
\* for no routes, as after a failed GetRoutes), the selection loop gives in
\* every order of the map a result of the two-pass rule, two orders differ
\* only when several routes hold the minimum, and a route a task has guessed
\* is a result of the two-pass rule.
C15_SelectionIsTwoPass ==
    \A i \in DOMAIN tasks :
        /\ (tasks[i].pc = "guess" /\ RowCount(EvidenceRows(i)) >= MinRecent) =>
              \A rs \in {routes, {}} :
                 LET rd == RouteDistances(rs, EvidenceRows(i))
                     n == RowCount(EvidenceRows(i))
                 IN  /\ Selected(rd, n) \subseteq TwoPass(rd, n)
                     /\ Cardinality(Selected(rd, n)) > 1 => Cardinality(Minima(rd)) > 1
        /\ (tasks[i].pc = "create" /\ tasks[i].route # "") =>
              tasks[i].route \in
                 TwoPass(RouteDistances(routes, [r \in Evidence(i) |-> updates[r]]),
                         Cardinality(Evidence(i)))

\* A route was guessed while another enabled route of the map was beyond
\* the threshold: in the orders that meet that route first the loop resets
\* its result and then overwrites it.
C15_Witness ==
    \E i \in DOMAIN tasks :
        /\ tasks[i].pc = "create"
        /\ tasks[i].route # ""
        /\ \E q \in routes :
              /\ q.Enabled
              /\ OverThreshold(Gathered(q, Evidence(i)), Cardinality(Evidence(i)))

\* The rows S all lie within the closeness threshold of a coordinate of the
\* route, and beyond it from every coordinate of every other route.
OnlyBy(route, S) ==
    \A u \in S :
        /\ \E c \in route.Coords : Distance(u.latitude, u.longitude, c) <= Near
        /\ \A other \in routes \ {route} : \A c \in other.Coords :
              Distance(u.latitude, u.longitude, c) > Near

\* C16: from five or more recent updates that all lie by one enabled route
\* and by no other, GuessRouteForVehicle given the routes and the updates
\* returns that route (or the error of GetRoute for it); the route a task
\* has guessed is that route, or empty after a failed GetRoutes.
C16_ClusteredHistorySelectsRoute ==
    \A i \in DOMAIN tasks : \A route \in routes :
        ( /\ route.Enabled
          /\ Cardinality(Evidence(i)) >= MinRecent
          /\ OnlyBy(route, Evidence(i)) )
        => /\ tasks[i].pc = "guess" =>
                 \A g \in Guess(routes, [err |-> Nil, rows |-> EvidenceRows(i)]) :
                    g.err = Nil => g.route = route.ID
           /\ tasks[i].pc = "create" => tasks[i].route \in {route.ID, ""}

C16_Witness ==
    \E i \in DOMAIN tasks : \E route \in routes :
        /\ route.Enabled
        /\ Cardinality(Evidence(i)) >= MinRecent
        /\ OnlyBy(route, Evidence(i))
        /\ Cardinality(routes) = 2
        /\ tasks[i].pc = "create"
        /\ tasks[i].route = route.ID

\* t.Year(), t.Month(), t.Day(), t.Hour(), t.Minute(), t.Second() of an
\* instant, read back from its day number and second of the day.
YearOf(t) ==
    CHOOSE y \in 2000..2040 : DaysToMonth(y, 1) <= t[1] /\ t[1] < DaysToMonth(y + 1, 1)

MonthOf(t) ==
    CHOOSE m \in 1..12 :
        /\ DaysToMonth(YearOf(t), m) <= t[1]
        /\ m < 12 => t[1] < DaysToMonth(YearOf(t), m + 1)

DayOf(t) == t[1] - DaysToMonth(YearOf(t), MonthOf(t)) + 1

HourOf(t) == t[2] \div 3600

MinuteOf(t) == (t[2] % 3600) \div 60

SecondOf(t) == t[2] % 60

\* The fields the two tokens spell: the date as MMDDYYYY, the time with its
\* last two digits the second, the two before them the minute, and the
\* digits before those the hour.
Spelled(time, date) ==
    [year |-> AtoiVal(SubSeq(date, 5, 8)), month |-> AtoiVal(SubSeq(date, 1, 2)),
     day |-> AtoiVal(SubSeq(date, 3, 4)),
     hour |-> AtoiVal(SubSeq(time, 1, Len(time) - 4)),
     minute |-> AtoiVal(SubSeq(time, Len(time) - 3, Len(time) - 2)),
     second |-> AtoiVal(SubSeq(time, Len(time) - 1, Len(time)))]

FieldsOf(t) ==
    [year |-> YearOf(t), month |-> MonthOf(t), day |-> DayOf(t),
     hour |-> HourOf(t), minute |-> MinuteOf(t), second |-> SecondOf(t)]

\* A date token of 8 digits with month 1..12 and a time token of 5 or 6
\* digits.
TokensInScope(seg) ==
    /\ Len(seg.date) = 8
    /\ Len(seg.time) \in {5, 6}
    /\ Spelled(seg.time, seg.date).month \in 1..12

\* The day exists in the month and the time is a time of the day.
OnTheCalendar(f) ==
    /\ f.day >= 1
    /\ DaysToMonth(f.year, f.month) + f.day
          <= (IF f.month = 12 THEN DaysToMonth(f.year + 1, 1)
              ELSE DaysToMonth(f.year, f.month + 1))
    /\ f.hour <= 23
    /\ f.minute <= 59
    /\ f.second <= 59

\* C17 as stated: for every date token MMDDYYYY with month 1..12 and every
\* time token of 5 or 6 digits, generateTimestamp returns without error the
\* UTC time with the year, month, day, hour, minute and second the tokens
\* spell, and the task goes on with that time.
C17_TimestampSpelledByTokens ==
    \A i \in DOMAIN tasks :
        TokensInScope(tasks[i].seg) =>
            LET g == generateTimestamp(tasks[i].seg.time, tasks[i].seg.date)
            IN  /\ ~g.panic /\ ~g.err
                /\ FieldsOf(g.t) = Spelled(tasks[i].seg.time, tasks[i].seg.date)
                /\ tasks[i].pc = "guess" => tasks[i].ts = g.t

\* C17 amended: the same for the tokens whose day exists in the month and
\* whose hour, minute and second are at most 23, 59 and 59.
C17_TimestampOfCalendarTokens ==
    \A i \in DOMAIN tasks :
        ( /\ TokensInScope(tasks[i].seg)
          /\ OnTheCalendar(Spelled(tasks[i].seg.time, tasks[i].seg.date)) ) =>
            LET g == generateTimestamp(tasks[i].seg.time, tasks[i].seg.date)
            IN  /\ ~g.panic /\ ~g.err
                /\ FieldsOf(g.t) = Spelled(tasks[i].seg.time, tasks[i].seg.date)
                /\ tasks[i].pc = "guess" => tasks[i].ts = g.t

\* The first case of TestGenerateTimestamp has gone through a task.
C17_Witness ==
    \E i \in DOMAIN tasks :
        /\ tasks[i].seg.time = <<9, 1, 9, 0, 2>>
        /\ tasks[i].seg.date = <<1, 1, 1, 2, 2, 0, 1, 7>>
        /\ tasks[i].pc = "guess"
        /\ FieldsOf(tasks[i].ts) = [year |-> 2017, month |-> 11, day |-> 12,
                                     hour |-> 9, minute |-> 19, second |-> 2]

\* The places of the delimiters in a body, and the place of the k-th one
\* (0 for k = 0).
Delimiters(b) == { k \in DOMAIN b : b[k] = Eof }

DelimiterAt(b, k) ==
    IF k = 0 THEN 0
    ELSE CHOOSE x \in Delimiters(b) : Cardinality({ y \in Delimiters(b) : y <= x }) = k

\* The pieces of a body between its (k-1)-th and its k-th delimiter.
Between(b, k) == SubSeq(b, DelimiterAt(b, k - 1) + 1, DelimiterAt(b, k) - 1)

\* C18: the split starts one task per delimiter of the body, the k-th on
\* the text between the (k-1)-th and the k-th delimiter, and none on the
\* text after the last delimiter; with no task started (a body without
\* delimiter) the wait group is at zero and update() goes on to the pruning.
C18_OneTaskPerDelimitedSegment ==
    [][ /\ (pc = "split" /\ pc' # "split") =>
             /\ pc' = "wait"
             /\ Len(tasks') = Cardinality(Delimiters(body))
             /\ wg' = Len(tasks')
             /\ \A k \in DOMAIN tasks' : tasks'[k] = NewTask(FirstMatch(Between(body, k)))
        /\ (pc = "wait" /\ tasks = <<>>) => (wg = 0 /\ ENABLED Wait)
        /\ (pc = "wait" /\ pc' # "wait" /\ tasks = <<>>) => pc' = "prune"
      ]_vars

\* A body that is one valid record with no delimiter after it: no task, and
\* update() is at the pruning.
C18_Witness ==
    /\ body = <<RecA>>
    /\ tasks = <<>>
    /\ pc = "prune"

\* The rows of a vehicle that were there when the cycle started, and the
\* latest of them.
RowsBefore(vid) == { r \in RowsOf(vid) : r.created < now }

LatestBefore(vid) ==
    { r \in RowsBefore(vid) : \A q \in RowsBefore(vid) : q.created <= r.created }

\* What the task of a record comes to when no other task of the cycle
\* touches its vehicle: a duplicate of the latest update the cycle found,
\* or one stored Update.
OutcomeWhenAlone(i) ==
    LET vid == VehicleOf(tasks[i].seg)
        ts == Ts(tasks[i].seg)
    IN  \/ /\ tasks[i].out = "dup"
           /\ \E r \in LatestBefore(vid) : r.timestamp = ts
           /\ RowsSince(vid, ts, now) = {}
        \/ /\ tasks[i].out = "stored"
           /\ RowsBefore(vid) = {} \/ \E r \in LatestBefore(vid) : r.timestamp # ts
           /\ Copies(updates, RowsSince(vid, ts, now)) = 1

C20_GrammarMatchEndsNormally ==
    \A i \in DOMAIN tasks :
       tasks[i].seg.match =>
          /\ pc # "crashed"
          /\ generateTimestamp(tasks[i].seg.time, tasks[i].seg.date).panic
                => tasks[i].pc = "getlast"

\* A storage call of the task returned an error.
MetStorageError(i) == StorageFailed(i) \/ tasks[i].routesErr # Nil

\* C21: a task one of whose storage calls returned an error (the lookup of
\* the vehicle, the last update, the routes, the recent updates, the route,
\* the insert) has not stored an Update.
C21_StorageErrorSkipsRecord ==
    \A i \in DOMAIN tasks : MetStorageError(i) => tasks[i].out # "stored"

\* The lat or the lon value of the record is not a number.
BadCoordinate(seg) ==
    ParseFloat(seg.lat).err # Nil \/ ParseFloat(seg.lon).err # Nil

\* C22: no Update is stored for a record that matches the expression and
\* whose lat or lon value is not a number: its task does not store, and no
\* row of the cycle carries 0 for the value.
C22_BadCoordinateSkipped ==
    \A i \in DOMAIN tasks :
       (tasks[i].seg.match /\ BadCoordinate(tasks[i].seg))
       => /\ tasks[i].out # "stored"
          /\ \A r \in DOMAIN updates : r.created = now => r.timestamp # tasks[i].ts

\* C23: a cycle that has started its goroutines comes to its pruning and
\* back to the loop of Run.
C23_CycleTerminates ==
    (pc = "wait") ~> (pc = "idle" /\ ended \in {"pruned", "prunefail"})

\* The ids of the routes of the table that have no coordinate.
WithoutCoords == { r.ID : r \in { q \in routes : q.Coords = {} } }

\* C24: from five recent updates or more GuessRouteForVehicle returns no
\* route without coordinates, and the route a task has guessed (and put in
\* its Update) has coordinates.
C24_EmptyRouteNeverGuessed ==
    \A i \in DOMAIN tasks :
        /\ (tasks[i].pc = "guess" /\ RowCount(EvidenceRows(i)) >= MinRecent) =>
              \A g \in GuessRouteForVehicle(tasks[i].vehicle) :
                 g.route \notin WithoutCoords
        /\ tasks[i].pc \in {"create", "done"} => tasks[i].route \notin WithoutCoords

\* A route was guessed from five updates or more out of a table that also
\* holds a route without coordinates.
C24_Witness ==
    \E i \in DOMAIN tasks :
        /\ tasks[i].pc = "create"
        /\ tasks[i].route = East(TRUE).ID
        /\ Depot \in routes
        /\ Cardinality(Evidence(i)) >= MinRecent

\* The vehicle records of the body: its segments that match the expression.
VehicleRecords(b) == { k \in DOMAIN b : b[k] # Eof /\ b[k].match }

\* C25: once update() has split the body, it has logged the warning exactly
\* when the body held no vehicle record, and it goes on to its goroutines
\* and the pruning either way.
C25_WarnedIffNoRecords ==
    pc \in {"wait", "prune"} =>
        (warned <=> VehicleRecords(body) = {})

\* C26: the Update a task has stored, read back with
\* GetLastUpdateForVehicle, has the route id the task put in it.
C26_RouteReadBack ==
    \A i \in DOMAIN tasks :
        tasks[i].out = "stored" =>
           \A l \in GetLastUpdateForVehicle(VehicleOf(tasks[i].seg)) :
              (l.err = Nil /\ l.Timestamp = tasks[i].ts) => l.Route = tasks[i].route

\* The task has a route for its Update: it has guessed, or stored.
HasRoute(i) == tasks[i].pc = "create" \/ tasks[i].out = "stored"

\* The updates of the vehicle of a task, the one the task stored not
\* counted.
StoredBefore(i) ==
    Copies(updates, RowsOf(VehicleOf(tasks[i].seg)))
       - (IF tasks[i].out = "stored" THEN 1 ELSE 0)

\* C27: the route a task puts in its Update is a result of the guess over
\* the updates stored before (with the routes, or with none after a failed
\* GetRoutes); it is not empty only when the vehicle had five updates or
\* more created in the last fifteen minutes, and it is empty while the
\* vehicle has fewer than five updates.
C27_RouteFromStoredHistory ==
    \A i \in DOMAIN tasks :
        HasRoute(i) =>
           /\ tasks[i].route \in
                 { g.route : g \in UNION { Guess(rs, [err |-> Nil,
                                                     rows |-> [r \in Evidence(i) |-> updates[r]]]) :
                                             rs \in {routes, {}} } }
           /\ tasks[i].route # "" => RecentBefore(i) >= MinRecent
           /\ StoredBefore(i) < MinRecent => tasks[i].route = ""

\* An Update was stored with a route guessed from exactly five recent
\* updates, all of them far from the east route the sample itself lies on.
C27_Witness ==
    \E i \in DOMAIN tasks :
        /\ tasks[i].out = "stored"
        /\ tasks[i].route = West(TRUE).ID
        /\ RecentBefore(i) = MinRecent
        /\ \A r \in Evidence(i) : r.latitude = Positions[3][1]
        /\ \E c \in East(TRUE).Coords :
              Distance(ParseFloat(tasks[i].seg.lat).v, ParseFloat(tasks[i].seg.lon).v, c) = 0

\* The rows of S farther than the closeness threshold from every coordinate
\* of a route.
Beyond(route, S) ==
    { u \in S : Less(Num(Near), NearestDistance(u.latitude, u.longitude, route)) }

\* C28: when a task has guessed a route from n recent updates, fewer than
\* n/10 of them lie beyond the closeness threshold of the route (50 times
\* their number is less than 5 times n); with 5 to 9 updates, none does.
C28_FewFarUpdates ==
    \A i \in DOMAIN tasks : \A route \in routes :
        (tasks[i].pc = "create" /\ tasks[i].route = route.ID)
        => LET n == Copies(updates, Evidence(i))
               far == Copies(updates, Beyond(route, Evidence(i)))
           IN  /\ far * Far < n * OffRoute
               /\ n * OffRoute < Far => far = 0

\* A route was guessed from updates one of which lies beyond the closeness
\* threshold of the route.
C28_Witness ==
    \E i \in DOMAIN tasks : \E route \in routes :
        /\ tasks[i].pc = "create"
        /\ tasks[i].route = route.ID
        /\ Copies(updates, Beyond(route, Evidence(i))) = 1

====
